---------------------------- MODULE Spec2Model ----------------------------
(***************************************************************************)
(* Program Lifecycle Manager of "Assisted Deployment and Departure"        *)
(* (src/src/lib.rs): command decomposition, the launch coordinator with    *)
(* its duplicate-run confirmation, validation of the persisted registry,   *)
(* the keybind callback boundary and the teardown that kills processes.    *)
(*                                                                         *)
(* Strings are sequences of UTF-8 code units.  An ASCII character is one   *)
(* unit, written as a one-character TLA+ string; a two-byte character is   *)
(* its lead unit ("U0130", "U0307") followed by the continuation unit "~". *)
(* Byte indices of the Rust code are therefore indices into the sequence.  *)
(***************************************************************************)
EXTENDS Integers, Sequences, FiniteSets, TLC

(***************************************************************************)
(* Option<T>: None is the empty sequence, Some(v) the one-element one.     *)
(***************************************************************************)
None == <<>>
Some(v) == <<v>>
IsSome(o) == Len(o) = 1
Unwrap(o) == o[1]

(***************************************************************************)
(* String helpers (Rust std).                                              *)
(***************************************************************************)
\* u8::to_ascii_lowercase
AsciiLowerUnit(u) ==
    CASE u = "A" -> "a" [] u = "B" -> "b" [] u = "C" -> "c" [] u = "D" -> "d"
      [] u = "E" -> "e" [] u = "F" -> "f" [] u = "G" -> "g" [] u = "H" -> "h"
      [] u = "I" -> "i" [] u = "J" -> "j" [] u = "K" -> "k" [] u = "L" -> "l"
      [] u = "M" -> "m" [] u = "N" -> "n" [] u = "O" -> "o" [] u = "P" -> "p"
      [] u = "Q" -> "q" [] u = "R" -> "r" [] u = "S" -> "s" [] u = "T" -> "t"
      [] u = "U" -> "u" [] u = "V" -> "v" [] u = "W" -> "w" [] u = "X" -> "x"
      [] u = "Y" -> "y" [] u = "Z" -> "z" [] OTHER -> u

\* str::eq_ignore_ascii_case
eq_ignore_ascii_case(a, b) ==
    /\ Len(a) = Len(b)
    /\ \A i \in 1..Len(a) : AsciiLowerUnit(a[i]) = AsciiLowerUnit(b[i])

\* char::to_lowercase as UTF-8 units.  U+0130 (2 bytes) lowers to "i" followed
\* by U+0307 (1 + 2 bytes): the lowered string is one byte longer.
LowerUnits(u) ==
    IF u = "U0130" THEN <<"i", "U0307">> ELSE <<AsciiLowerUnit(u)>>

RECURSIVE to_lowercase(_)
to_lowercase(s) ==
    IF s = <<>> THEN <<>> ELSE LowerUnits(Head(s)) \o to_lowercase(Tail(s))

\* str::rfind: the byte index (0-based) of the last match, or None.
rfind(hay, needle) ==
    LET n == Len(needle)
        hits == {i \in 0..(Len(hay) - n) : SubSeq(hay, i + 1, i + n) = needle}
    IN  IF hits = {} THEN None
        ELSE Some(CHOOSE i \in hits : \A j \in hits : j <= i)

\* str::is_char_boundary
is_char_boundary(s, i) ==
    \/ i = 0
    \/ i = Len(s)
    \/ (i > 0 /\ i < Len(s) /\ s[i + 1] # "~")

\* &s[..i] and &s[i..].  Rust panics when i is out of bounds or inside a
\* character: None stands for that panic, Some(slice) for the slice.
SliceTo(s, i) == IF is_char_boundary(s, i) THEN Some(SubSeq(s, 1, i)) ELSE None
SliceFrom(s, i) == IF is_char_boundary(s, i) THEN Some(SubSeq(s, i + 1, Len(s))) ELSE None

IsSpace(u) == u \in {" ", "\t", "\n"}

RECURSIVE trim_start(_)
trim_start(s) ==
    IF s # <<>> /\ IsSpace(Head(s)) THEN trim_start(Tail(s)) ELSE s

RECURSIVE trim_end(_)
trim_end(s) ==
    IF s # <<>> /\ IsSpace(s[Len(s)]) THEN trim_end(SubSeq(s, 1, Len(s) - 1)) ELSE s

\* str::trim
trim(s) == trim_end(trim_start(s))

\* [String]::join(" ")
RECURSIVE join(_)
join(words) ==
    IF words = <<>> THEN <<>>
    ELSE IF Len(words) = 1 THEN words[1]
    ELSE words[1] \o <<" ">> \o join(Tail(words))

\* str::replace(' ', "_")
RECURSIVE replace_space(_)
replace_space(s) ==
    IF s = <<>> THEN <<>>
    ELSE <<IF Head(s) = " " THEN "_" ELSE Head(s)>> \o replace_space(Tail(s))

\* The decimal digits of a positive integer, as format!("{}", n) writes them.
Digit(d) == CASE d = 0 -> "0" [] d = 1 -> "1" [] d = 2 -> "2" [] d = 3 -> "3"
              [] d = 4 -> "4" [] d = 5 -> "5" [] d = 6 -> "6" [] d = 7 -> "7"
              [] d = 8 -> "8" [] OTHER -> "9"

RECURSIVE Decimal(_)
Decimal(n) == IF n < 10 THEN <<Digit(n)>> ELSE Decimal(n \div 10) \o <<Digit(n % 10)>>

(***************************************************************************)
(* shell_words::split: POSIX-shell word splitting.  st is the state of the *)
(* crate's state machine, word the word being built, words those done.     *)
(* The result is Some(words), or None for a ParseError (an unclosed quote). *)
(***************************************************************************)
RECURSIVE ShellSplit(_, _, _, _)
ShellSplit(s, st, word, words) ==
    IF s = <<>> THEN
        CASE st \in {"Delimiter", "Comment"} -> Some(words)
          [] st \in {"Backslash", "UnquotedBackslash"} -> Some(Append(words, Append(word, "\\")))
          [] st = "Unquoted" -> Some(Append(words, word))
          [] OTHER -> None
    ELSE
        LET c == Head(s)
            r == Tail(s)
        IN  CASE st = "Delimiter" ->
                    (CASE c = "'" -> ShellSplit(r, "SingleQuoted", word, words)
                       [] c = "\"" -> ShellSplit(r, "DoubleQuoted", word, words)
                       [] c = "\\" -> ShellSplit(r, "Backslash", word, words)
                       [] IsSpace(c) -> ShellSplit(r, "Delimiter", word, words)
                       [] c = "#" -> ShellSplit(r, "Comment", word, words)
                       [] OTHER -> ShellSplit(r, "Unquoted", Append(word, c), words))
              [] st = "Backslash" ->
                    IF c = "\n" THEN ShellSplit(r, "Delimiter", word, words)
                    ELSE ShellSplit(r, "Unquoted", Append(word, c), words)
              [] st = "Unquoted" ->
                    (CASE c = "'" -> ShellSplit(r, "SingleQuoted", word, words)
                       [] c = "\"" -> ShellSplit(r, "DoubleQuoted", word, words)
                       [] c = "\\" -> ShellSplit(r, "UnquotedBackslash", word, words)
                       [] IsSpace(c) -> ShellSplit(r, "Delimiter", <<>>, Append(words, word))
                       [] OTHER -> ShellSplit(r, "Unquoted", Append(word, c), words))
              [] st = "UnquotedBackslash" ->
                    IF c = "\n" THEN ShellSplit(r, "Unquoted", word, words)
                    ELSE ShellSplit(r, "Unquoted", Append(word, c), words)
              [] st = "SingleQuoted" ->
                    IF c = "'" THEN ShellSplit(r, "Unquoted", word, words)
                    ELSE ShellSplit(r, "SingleQuoted", Append(word, c), words)
              [] st = "DoubleQuoted" ->
                    (CASE c = "\"" -> ShellSplit(r, "Unquoted", word, words)
                       [] c = "\\" -> ShellSplit(r, "DoubleQuotedBackslash", word, words)
                       [] OTHER -> ShellSplit(r, "DoubleQuoted", Append(word, c), words))
              [] st = "DoubleQuotedBackslash" ->
                    (CASE c = "\n" -> ShellSplit(r, "DoubleQuoted", word, words)
                       \* the crate also lists the backquote, which no string here holds
                       [] c \in {"$", "\"", "\\"} ->
                            ShellSplit(r, "DoubleQuoted", Append(word, c), words)
                       [] OTHER ->
                            ShellSplit(r, "DoubleQuoted", Append(Append(word, "\\"), c), words))
              [] OTHER -> \* Comment
                    IF c = "\n" THEN ShellSplit(r, "Delimiter", word, words)
                    ELSE ShellSplit(r, "Comment", word, words)

shell_words_split(s) == ShellSplit(s, "Delimiter", <<>>, <<>>)

(***************************************************************************)
(* The strings of the model.                                               *)
(***************************************************************************)
EXT_EXE == <<".", "e", "x", "e">>
EXT_COM == <<".", "c", "o", "m">>
EXT_BAT == <<".", "b", "a", "t">>

\* The name cleanup_processes never kills: "Gw2-64.exe".
HOST_EXE == <<"G", "w", "2", "-", "6", "4">> \o EXT_EXE

\* The keybind identifier prefix: "LAUNCH_".
LAUNCH_PREFIX == <<"L", "A", "U", "N", "C", "H", "_">>

DirC == <<"C", ":", "\\">>
\* C:\A.exe and C:\B.exe are the files on disk.
PathA == DirC \o <<"A">> \o EXT_EXE
PathB == DirC \o <<"B">> \o EXT_EXE
\* C:\A B.exe : a file whose name has a space
PathSpaced == DirC \o <<"A", " ", "B">> \o EXT_EXE
Files == {PathA, PathB, PathSpaced}
Dirs == {DirC}

\* C:\A.exe -x
CmdA == PathA \o <<" ", "-", "x">>
\* C:\B.exe
CmdB == PathB
\* c:\a.exe : the file C:\A.exe, written in lower case
CmdALower == <<"c", ":", "\\", "a">> \o EXT_EXE
\* C:\M.exe : no such file
CmdMissing == DirC \o <<"M">> \o EXT_EXE
\* "C:\B.exe : a quote that is never closed
CmdUnclosed == <<"\"">> \o PathB
\* a command of spaces only
CmdBlank == <<" ">>
\* <U+0130>.exe : to_lowercase makes it one byte longer
CmdDotted == <<"U0130", "~">> \o EXT_EXE

\* C:\P T : a path with a space and none of the extension markers
CmdPlain == DirC \o <<"P", " ", "T">>
\* C:\A.exe X.bat : the file C:\A.exe with an argument that ends in .bat
CmdExeBat == PathA \o <<" ", "X">> \o EXT_BAT

NameA == <<"A">> \o EXT_EXE
NameALower == <<"a">> \o EXT_EXE
NameB == <<"B">> \o EXT_EXE

(***************************************************************************)
(* std::path::Path on Windows, as far as the code uses it.                 *)
(***************************************************************************)
IsSep(u) == u \in {"\\", "/"}

\* NTFS lookups ignore case.
SamePath(p, q) == eq_ignore_ascii_case(p, q)

\* Path::is_file
is_file(p) == \E f \in Files : SamePath(p, f)

\* Path::exists
exists(p) == \E f \in Files \cup Dirs : SamePath(p, f)

\* Trailing separators and trailing "." components are not components.
RECURSIVE StripTrailing(_)
StripTrailing(p) ==
    IF p # <<>> /\ IsSep(p[Len(p)]) THEN StripTrailing(SubSeq(p, 1, Len(p) - 1))
    ELSE IF Len(p) >= 2 /\ p[Len(p)] = "." /\ IsSep(p[Len(p) - 1])
         THEN StripTrailing(SubSeq(p, 1, Len(p) - 2))
    ELSE p

\* A drive prefix ("C:") is a component of its own.
AfterPrefix(p) == IF Len(p) >= 2 /\ p[2] = ":" THEN SubSeq(p, 3, Len(p)) ELSE p

\* The index of the last separator of q, 0 when it has none.
LastSep(q) ==
    LET seps == {i \in 1..Len(q) : IsSep(q[i])}
    IN  IF seps = {} THEN 0 ELSE CHOOSE i \in seps : \A j \in seps : j <= i

\* Only a normal component is a file name: not "", "." or "..".
NormalOnly(last) == IF last \in {<<>>, <<".">>, <<".", ".">>} THEN None ELSE Some(last)

LastComponent(q) == NormalOnly(SubSeq(q, LastSep(q) + 1, Len(q)))

\* Path::file_name: the last component when it is a normal one.
file_name(p) == LastComponent(StripTrailing(AfterPrefix(p)))

(***************************************************************************)
(* Command decomposition.  A result is [tag, exe, args]: tag "some" with   *)
(* the executable and its arguments, "none", or "panic" when the slice at  *)
(* the marker's index panics.                                              *)
(***************************************************************************)
DSome(exe, args) == [tag |-> "some", exe |-> exe, args |-> args]
DNone == [tag |-> "none", exe |-> <<>>, args |-> <<>>]
DPanic == [tag |-> "panic", exe |-> <<>>, args |-> <<>>]

\* rfind(".exe") or else rfind(".com") or else rfind(".bat"), each plus 4
FirstMarker(e, c, b) ==
    IF IsSome(e) THEN Some(Unwrap(e) + 4)
    ELSE IF IsSome(c) THEN Some(Unwrap(c) + 4)
    ELSE IF IsSome(b) THEN Some(Unwrap(b) + 4)
    ELSE None

exe_end_index(command_lower) ==
    FirstMarker(rfind(command_lower, EXT_EXE), rfind(command_lower, EXT_COM),
                rfind(command_lower, EXT_BAT))

\* The `_ =>` arm: shell-style tokenization of the whole string.  parts is
\* shell_words::split(command_str), again the split of the joined arguments;
\* either `.ok()?` returns None on a ParseError.
SplitArgs(exe, again) == IF ~IsSome(again) THEN DNone ELSE DSome(exe, Unwrap(again))

SplitParts(parts) ==
    IF ~IsSome(parts) THEN DNone
    ELSE IF Unwrap(parts) = <<>> THEN DNone
    ELSE SplitArgs(Head(Unwrap(parts)), shell_words_split(join(Tail(Unwrap(parts)))))

SplitWhole(command_str) == SplitParts(shell_words_split(command_str))

\* The first arm: the executable is the trimmed prefix, the arguments the
\* split of the trimmed rest (unwrap_or_default: none on a ParseError).
SplitMarker(exe_path_str, args) ==
    DSome(trim(exe_path_str), IF IsSome(args) THEN Unwrap(args) ELSE <<>>)

\* The match on exe_end_index; whole is what the `_ =>` arm returns.
SplitAt(command_str, exe_end, whole) ==
    IF ~IsSome(exe_end) THEN whole
    ELSE IF ~IsSome(SliceTo(command_str, Unwrap(exe_end))) THEN DPanic
    ELSE IF is_file(Unwrap(SliceTo(command_str, Unwrap(exe_end))))
    THEN SplitMarker(Unwrap(SliceTo(command_str, Unwrap(exe_end))),
                     shell_words_split(trim(Unwrap(SliceFrom(command_str, Unwrap(exe_end))))))
    ELSE whole

get_executable_and_args_from_command(command_str) ==
    SplitAt(command_str, exe_end_index(to_lowercase(command_str)), SplitWhole(command_str))

\* The decompositions of the model's commands, computed once.
Commands ==
    {CmdA, CmdB, CmdALower, CmdMissing, CmdUnclosed, CmdBlank, CmdDotted, PathSpaced,
     CmdPlain, CmdExeBat}
Decomposed == [c \in Commands |-> get_executable_and_args_from_command(c)]
Decompose(command_str) == Decomposed[command_str]

\* A result is [tag, name]: "some" with the file name, "none" or "panic".
NameOf(f) ==
    IF IsSome(f) THEN [tag |-> "some", name |-> Unwrap(f)]
    ELSE [tag |-> "none", name |-> <<>>]

ProgramName(d) ==
    IF d.tag = "some" THEN NameOf(file_name(d.exe)) ELSE [tag |-> d.tag, name |-> <<>>]

get_program_name_from_command(command_str) == ProgramName(Decompose(command_str))

\* build_command: Ok(the command) exactly when the decomposition is Some.
build_command(path) == Decompose(path)

\* Spaces and underscores exchanged instead of spaces replaced.
sanitize_identifier_swap(text) ==
    [i \in 1..Len(text) |-> IF text[i] = " " THEN "_"
                            ELSE IF text[i] = "_" THEN " " ELSE text[i]]

\* sanitize_identifier
sanitize_identifier(text) == replace_space(text)

(***************************************************************************)
(* Configuration.                                                          *)
(***************************************************************************)
\* struct ProgramToLaunch; trigger is a LaunchTrigger
ProgramToLaunch(name, display_name, path, trigger, close_on_unload) ==
    [name |-> name, display_name |-> display_name, path |-> path,
     trigger |-> trigger, close_on_unload |-> close_on_unload,
     show_in_quick_access |-> TRUE]

\* struct Config
Config(programs_to_launch, programs_to_kill) ==
    [programs_to_launch |-> programs_to_launch, programs_to_kill |-> programs_to_kill]

\* Config::default()
DefaultConfig == Config(<<>>, <<>>)

\* Vec::contains
Contains(list, x) == \E i \in 1..Len(list) : list[i] = x

\* format!("{}_{}", base_name, suffix)
Suffixed(base_name, suffix) == base_name \o <<"_">> \o Decimal(suffix)

\* A loop that never runs: the name is taken as it is.
UniqueName_no_loop(base_name, final_name, suffix, used_names) == final_name

\* The `while used_names.contains(&final_name)` loop, from `suffix`.
RECURSIVE UniqueName(_, _, _, _)
UniqueName(base_name, final_name, suffix, used_names) ==
    IF final_name \in used_names
    THEN UniqueName(base_name, Suffixed(base_name, suffix), suffix + 1, used_names)
    ELSE final_name

(***************************************************************************)
(* From<LegacyProgramToLaunch> and From<LegacyConfig>.                     *)
(***************************************************************************)
\* str::ends_with
ends_with(s, suffix) ==
    Len(s) >= Len(suffix) /\ SubSeq(s, Len(s) - Len(suffix) + 1, Len(s)) = suffix

\* rsplit_once('.').map_or(name, |(name, _)| name): what precedes the last dot
without_ext(name) ==
    LET dots == {i \in 1..Len(name) : name[i] = "."}
    IN  IF dots = {} THEN name
        ELSE SubSeq(name, 1, (CHOOSE i \in dots : \A j \in dots : j <= i) - 1)

\* clean_name: the legacy name without its .exe, .com or .bat, sanitized
clean_name(legacy_name) ==
    IF ends_with(legacy_name, EXT_EXE) \/ ends_with(legacy_name, EXT_COM)
       \/ ends_with(legacy_name, EXT_BAT)
    THEN sanitize_identifier(without_ext(legacy_name))
    ELSE sanitize_identifier(legacy_name)

\* The display name the conversion gives: the legacy one, or if that is
\* empty the file name of the command, or else the new name.
LegacyDisplayName(legacy, name, pn) ==
    IF legacy.display_name # <<>> THEN legacy.display_name
    ELSE IF pn.tag = "some" THEN pn.name ELSE name

\* ProgramToLaunch::from(legacy), pn being the file name of legacy.path
ProgramFromLegacy(legacy, name, pn) ==
    [legacy EXCEPT !.name = name, !.display_name = LegacyDisplayName(legacy, name, pn)]

\* Whether ProgramToLaunch::from(legacy) panics: it decomposes the command
\* only when the display name is empty.
LegacyPanics(legacy) ==
    legacy.display_name = <<>> /\ get_program_name_from_command(legacy.path).tag = "panic"

\* Config::from(legacy)'s loop: each converted program gets a name not in
\* used_names.
RECURSIVE LegacyFrom(_, _, _)
LegacyNext(programs, used_names, new_prog, final_name, rest) ==
    LegacyFrom(Append(programs, [new_prog EXCEPT !.name = final_name]),
               used_names \cup {final_name}, rest)

LegacyOne(programs, used_names, new_prog, rest) ==
    LegacyNext(programs, used_names, new_prog,
               UniqueName(new_prog.name, new_prog.name, 2, used_names), rest)

LegacyFrom(programs, used_names, legacy_programs) ==
    IF legacy_programs = <<>> THEN programs
    ELSE LegacyOne(programs, used_names,
                   ProgramFromLegacy(Head(legacy_programs),
                                     clean_name(Head(legacy_programs).name),
                                     get_program_name_from_command(Head(legacy_programs).path)),
                   Tail(legacy_programs))

\* Config::from(legacy): [tag, config], "panic" when a conversion panics
ConfigFromLegacy(legacy) ==
    IF \E i \in 1..Len(legacy.programs_to_launch) : LegacyPanics(legacy.programs_to_launch[i])
    THEN [tag |-> "panic", config |-> DefaultConfig]
    ELSE [tag |-> "some",
          config |-> Config(LegacyFrom(<<>>, {}, legacy.programs_to_launch),
                            legacy.programs_to_kill)]

(***************************************************************************)
(* settings.ron.  A payload is [kind, config]: "missing" (no file),        *)
(* "binary" (bytes that are not UTF-8), "garbage" (text that is no RON     *)
(* struct), "current" (a struct written without a type name, which is what *)
(* to_string_pretty writes) or "legacy_named" (a struct written as         *)
(* LegacyConfig(...)).                                                     *)
(***************************************************************************)
\* fs::read_to_string(&path): Ok for a file holding text
read_to_string(payload) ==
    IF payload.kind \in {"missing", "binary"} THEN None ELSE Some(payload)

\* ron::from_str::<Config>: the fields Config and ProgramToLaunch require
\* are those LegacyConfig and LegacyProgramToLaunch require, but for name,
\* which here has a default; a struct of another type name is refused.
from_str_Config(content) ==
    IF content.kind = "current" THEN Some(content.config) ELSE None

\* ron::from_str::<LegacyConfig>
from_str_LegacyConfig(content) ==
    IF content.kind \in {"current", "legacy_named"} THEN Some(content.config) ELSE None

(***************************************************************************)
(* validate_and_cleanup_config: the retain_mut closure applied to the      *)
(* programs in order.  acc is [kept, used_names, needs_save, panicked].    *)
(***************************************************************************)
\* The closure's `return false`: the program is dropped, needs_save is not set.
ValidateRemove(acc) == acc

\* `if prog.display_name.is_empty()`: the file name, or else the name
DisplayNameFor(prog, pn) ==
    IF prog.display_name # <<>> THEN prog.display_name
    ELSE IF pn.tag = "some" THEN pn.name ELSE prog.name

\* `if prog.name.is_empty()`: the file name or else the display name, sanitized
NameFor(prog, pn, display_name) ==
    IF prog.name # <<>> THEN prog.name
    ELSE IF pn.tag = "some" THEN sanitize_identifier(pn.name)
    ELSE sanitize_identifier(display_name)

\* The closure's `true`: the program is kept under final_name.
ValidateKeep(acc, prog, display_name, name, final_name) ==
    [kept |-> Append(acc.kept,
                     [prog EXCEPT !.display_name = display_name, !.name = final_name]),
     used_names |-> acc.used_names \cup {final_name},
     needs_save |-> \/ acc.needs_save
                    \/ prog.display_name = <<>>
                    \/ prog.name = <<>>
                    \/ final_name # name,
     panicked |-> FALSE]

\* The suffix counter starting at 3 instead of 2.
ValidateUnique_from_3(acc, prog, display_name, name) ==
    ValidateKeep(acc, prog, display_name, name, UniqueName(name, name, 3, acc.used_names))

\* `let mut suffix = 2` and the loop, then the closure's `true`.
ValidateUnique(acc, prog, display_name, name) ==
    ValidateKeep(acc, prog, display_name, name, UniqueName(name, name, 2, acc.used_names))

ValidateDecomposed(acc, prog, d, pn) ==
    IF d.tag = "panic" THEN [acc EXCEPT !.panicked = TRUE]
    ELSE IF d.tag = "some" /\ ~exists(d.exe) THEN ValidateRemove(acc)
    ELSE ValidateUnique(acc, prog, DisplayNameFor(prog, pn),
                        NameFor(prog, pn, DisplayNameFor(prog, pn)))

ValidateOne(acc, prog) ==
    ValidateDecomposed(acc, prog, Decompose(prog.path), ProgramName(Decompose(prog.path)))

RECURSIVE ValidateFrom(_, _)
ValidateFrom(acc, programs) ==
    IF programs = <<>> \/ acc.panicked THEN acc
    ELSE ValidateFrom(ValidateOne(acc, Head(programs)), Tail(programs))

validate_and_cleanup_config(config) ==
    ValidateFrom([kept |-> <<>>, used_names |-> {}, needs_save |-> FALSE,
                  panicked |-> FALSE],
                 config.programs_to_launch)

(***************************************************************************)
(* unload's kill list and cleanup_processes' filter.                       *)
(***************************************************************************)
\* `if !list.contains(&filename) { list.push(filename) }`
PushIfAbsent(list, filename) ==
    IF Contains(list, filename) THEN list ELSE Append(list, filename)

\* The block computing kill_list; "panic" when a decomposition panics.
RECURSIVE KillListFrom(_, _)
KillListNext(list, program, pn, rest) ==
    IF ~program.close_on_unload THEN KillListFrom(list, rest)
    ELSE IF pn.tag = "panic" THEN [tag |-> "panic", list |-> list]
    ELSE IF pn.tag = "some" THEN KillListFrom(PushIfAbsent(list, pn.name), rest)
    ELSE KillListFrom(list, rest)

KillListFrom(list, programs) ==
    IF programs = <<>> THEN [tag |-> "some", list |-> list]
    ELSE KillListNext(list, Head(programs),
                      get_program_name_from_command(Head(programs).path), Tail(programs))

kill_list(config) == KillListFrom(config.programs_to_kill, config.programs_to_launch)

\* A cleanup_processes that keeps every target, the host's name included.
IsSafeTarget_keep_all(n) == TRUE

\* A filter that compares the target with "Gw2-64.exe" as written.
IsSafeTarget_exact_case(n) == n # HOST_EXE

\* Whether cleanup_processes keeps a target: it is not "Gw2-64.exe".
IsSafeTarget(n) == ~eq_ignore_ascii_case(n, HOST_EXE)

\* safe_targets: the targets kept, in order.
RECURSIVE safe_targets(_)
safe_targets(targets) ==
    IF targets = <<>> THEN <<>>
    ELSE (IF IsSafeTarget(Head(targets)) THEN <<Head(targets)>> ELSE <<>>)
         \o safe_targets(Tail(targets))

\* How many events the environment brings about while the addon is loaded:
\* keybinds the host dispatches, processes that exit, edits in the options
\* window.
MaxEvents == 1

\* "Gw2.exe": another name the host process may run under.
HostAltName == <<"G", "w", "2">> \o EXT_EXE
\* "gw2-64.EXE": the host's name in another case.
HostOtherCase == <<"g", "w", "2", "-", "6", "4", ".", "E", "X", "E">>

ProgA == ProgramToLaunch(<<"A">>, NameA, CmdA, "OnAddonLoad", TRUE)
ProgB == ProgramToLaunch(<<"B">>, NameB, CmdB, "OnKeybind", FALSE)
ProgU == ProgramToLaunch(<<"U">>, <<"U">>, CmdUnclosed, "OnKeybind", TRUE)
ProgM == ProgramToLaunch(<<"M">>, <<"M">>, CmdMissing, "OnAddonLoad", FALSE)
\* No name, no display name and a command that cannot be decomposed.
ProgE == ProgramToLaunch(<<>>, <<>>, CmdUnclosed, "OnKeybind", FALSE)
\* As the legacy schema had it: the name is the file name "A.exe".
ProgL == ProgramToLaunch(NameA, <<>>, CmdA, "OnKeybind", FALSE)

\* A file the legacy version wrote, and the same written as LegacyConfig(...).
PayloadLegacy == [kind |-> "current", config |-> Config(<<ProgL>>, <<>>)]
PayloadLegacyNamed == [kind |-> "legacy_named", config |-> Config(<<ProgL, ProgL>>, <<>>)]

\* The contents settings.ron may have when the addon is loaded.
Payloads ==
    { [kind |-> "missing", config |-> DefaultConfig],
      [kind |-> "current",
       config |-> Config(<<ProgA, ProgB>>, <<NameALower, HostOtherCase>>)],
      [kind |-> "current",
       config |-> Config(<<ProgU, ProgM>>, <<HostAltName>>)],
      [kind |-> "current", config |-> Config(<<ProgB, ProgB, ProgB>>, <<>>)],
      [kind |-> "current", config |-> Config(<<ProgE>>, <<>>)],
      PayloadLegacy, PayloadLegacyNamed,
      [kind |-> "garbage", config |-> DefaultConfig],
      [kind |-> "binary", config |-> DefaultConfig] }

\* The host process, in which the addon runs, and whether p is it.
HostProcess(name) == [pid |-> 1, name |-> name]
IsCurrentProcess(p) == p.pid = 1
\* The processes already running besides the host.
Others == {[pid |-> 2, name |-> NameA], [pid |-> 3, name |-> NameB]}

\* What the host may pass as the identifier of a keybind it did not get
\* from this addon: a null pointer, bytes that are not UTF-8, another name.
RawId(kind, text) == [kind |-> kind, text |-> text]
ForeignIdentifiers ==
    {RawId("null", <<>>), RawId("invalid_utf8", <<>>), RawId("utf8", <<>>),
     RawId("utf8", NameB), RawId("utf8", LAUNCH_PREFIX \o <<"Z">>)}

\* What the user may type into the "Add new program" field, and into a
\* "Display Name" field.
AddInputs == {CmdA, PathSpaced, CmdPlain, CmdExeBat}
DisplayNameInputs == {<<"A", " ", "B">>}
\* The checkboxes of a program in the options window.
Flags == {"close_on_unload", "show_in_quick_access"}

Threads == {"main", "cb"}
LockNames == {"CONFIG", "SYSTEM_INFO", "PENDING_LAUNCH_CONFIRMATION"}

(***************************************************************************)
(* State.                                                                  *)
(***************************************************************************)
VARIABLES
    file,        \* settings.ron: [kind, config]
    backup,      \* settings.ron.backup: None, or Some of the payload copied
    persisted,   \* settings.ron as it was when the addon was loaded
    edits,       \* the edits made in the options window so far
    CONFIG,      \* the Config behind the CONFIG mutex
    PENDING_LAUNCH_CONFIRMATION,  \* Option<String>
    lock,        \* lock name -> "free" or the thread holding it
    poisoned,    \* the mutexes a panicking holder has poisoned
    procs,       \* the OS process table: a set of [pid, name]
    hostName,    \* the name the host process runs under
    host,        \* "alive", "crashed_main", "crashed_callback" or "killed"
    th,          \* thread -> its frame (see Frame)
    setup,       \* load: the programs of the cloned config still to set up
    repair,      \* what validate_and_cleanup_config did: [removed, needs_save]
    registered,  \* the keybind identifiers registered with the host
    ICON_CACHE,  \* the program names with an icon set up
    triggers,    \* calls of keybind_callback so far
    kill,        \* unload: [list, targets, ti, snapshot, done]
    spawnLog,    \* the spawn attempts made, in order
    killLog,     \* the kill calls made: a set of [pid, name, target]
    exits,       \* processes that have exited on their own
    calls,       \* the launch_process calls that returned: a set of records
    caught,      \* the places where a panic was caught by the callback
    defer        \* the commands deferred since the last resolution

vars == <<file, backup, persisted, edits, CONFIG, PENDING_LAUNCH_CONFIRMATION, lock, poisoned, procs, hostName,
          host, th, setup, repair, registered, ICON_CACHE, triggers, kill, spawnLog,
          killLog, exits, calls, caught, defer>>

\* A thread's frame: where it is, the name the callback was called for, the
\* event is the call of keybind_callback the callback thread is in or was
\* last in; launch_process call it is in (path, filename) and what that call has
\* done so far (probed, running, spawns, stored); click is the popup button
\* of the frame being rendered.
Frame(pc) ==
    [pc |-> pc, event |-> [identifier |-> RawId("null", <<>>), is_release |-> FALSE],
     name |-> <<>>, path |-> <<>>, filename |-> <<>>, named |-> FALSE,
     probed |-> FALSE,
     running |-> FALSE, spawns |-> 0, stored |-> FALSE, click |-> "none"]

\* The events so far.
Events == triggers + exits + edits

NoKill == [list |-> <<>>, targets |-> <<>>, ti |-> 0, snapshot |-> {}, done |-> {}]

Init ==
    /\ file \in Payloads
    /\ backup = None
    /\ persisted = file
    /\ edits = 0
    /\ CONFIG = DefaultConfig
    /\ PENDING_LAUNCH_CONFIRMATION = None
    /\ lock = [l \in LockNames |-> "free"]
    /\ poisoned = {}
    /\ hostName \in {HOST_EXE, HostAltName}
    /\ \E running \in SUBSET Others :
           procs = {HostProcess(hostName)} \cup running
    /\ host = "alive"
    /\ th = [t \in Threads |-> Frame(IF t = "main" THEN "load" ELSE "idle")]
    /\ setup = <<>>
    /\ repair = [removed |-> 0, needs_save |-> FALSE]
    /\ registered = {}
    /\ ICON_CACHE = {}
    /\ triggers = 0
    /\ kill = NoKill
    /\ spawnLog = <<>>
    /\ killLog = {}
    /\ exits = 0
    /\ calls = {}
    /\ caught = {}
    /\ defer = <<>>

(***************************************************************************)
(* Locks and panics.                                                       *)
(***************************************************************************)
Held(t) == {l \in LockNames : lock[l] = t}

\* The nested acquisitions of the code, as <<held, taken>>: CONFIG is held
\* by launch_process_by_name when is_process_running takes SYSTEM_INFO and
\* when launch_process takes PENDING_LAUNCH_CONFIRMATION, and by the first
\* pass of render_programs_to_launch_section when it takes LAUNCH_INPUT;
\* render_programs_to_kill_section holds KILL_INPUT when it takes CONFIG.
\* ICON_CACHE is taken with no other lock held.
Nesting ==
    {<<"CONFIG", "SYSTEM_INFO">>, <<"CONFIG", "PENDING_LAUNCH_CONFIRMATION">>,
     <<"CONFIG", "LAUNCH_INPUT">>, <<"KILL_INPUT", "CONFIG">>}

\* A callback body run without a boundary: a panic unwinds into the host.
catch_unwind_absent(panicked) == IF panicked THEN "unwound" ELSE "returned"

\* keybind_callback's boundary: what becomes of a panic raised in its body.
catch_unwind(panicked) == IF panicked THEN "caught" ELSE "returned"

\* Thread t panics at `at` holding the locks `more` besides those in lock:
\* unwinding drops its guards, which poisons their mutexes.  A panic on the
\* callback thread reaches catch_unwind; one on the main thread leaves the
\* addon's entry point and ends the host.
Panics(t, at, more) ==
    /\ poisoned' = poisoned \cup Held(t) \cup more
    /\ lock' = [l \in LockNames |-> IF lock[l] = t THEN "free" ELSE lock[l]]
    /\ IF t = "cb" /\ catch_unwind(TRUE) = "caught"
       THEN /\ th' = [th EXCEPT !.cb.pc = "idle"]
            /\ caught' = caught \cup {at}
            /\ host' = host
       ELSE /\ th' = th
            /\ caught' = caught
            /\ host' = IF t = "cb" THEN "crashed_callback" ELSE "crashed_main"
    /\ UNCHANGED <<file, backup, persisted, edits, CONFIG, PENDING_LAUNCH_CONFIRMATION, procs, hostName, setup,
                   repair, registered, ICON_CACHE, triggers, kill, spawnLog, killLog, exits, calls, defer>>

(***************************************************************************)
(* Launch coordinator: launch_process and force_launch_process, run by     *)
(* thread t (the callback under the CONFIG lock, load without it).         *)
(***************************************************************************)
\* is_process_running's test on the refreshed process table
is_process_running(process_name, table) ==
    \E p \in table : eq_ignore_ascii_case(p.name, process_name)

\* A launch_process that spawns whether or not the program is running.
launch_process_branch_always_force(running) == "force"

\* launch_process's choice once the file name is known
launch_process_branch(running) == IF running THEN "store" ELSE "force"

\* The frame of a thread entering launch_process(path), file name pn.
Launching(path, pn) ==
    [Frame(IF pn.tag = "some" THEN "probe" ELSE "force")
        EXCEPT !.path = path, !.filename = pn.name, !.named = (pn.tag = "some")]
\* The same, in the callback: the frame keeps its event and name.
LaunchingFrom(f, path, pn) ==
    [Launching(path, pn) EXCEPT !.event = f.event, !.name = f.name]

\* The frame of thread t when launch_process returns: the callback goes
\* back to the host, load goes on with the next program.
Returned(t, f) == [f EXCEPT !.pc = IF t = "cb" THEN "idle" ELSE "setup"]

\* What a returned launch_process call did, for the record.
CallRecord(t, f) ==
    [by |-> t, path |-> f.path, named |-> f.named, probed |-> f.probed,
     running |-> f.running, spawns |-> f.spawns, stored |-> f.stored]

\* A guard that outlives launch_process_by_name.
ReleasedOnReturn_keeps(t) == lock

\* launch_process_by_name's guard is dropped when it returns.
ReleasedOnReturn(t) == [lock EXCEPT !["CONFIG"] = IF t = "cb" THEN "free" ELSE @]

\* The pid the OS gives the next child.
NewPid == 4 + Len(spawnLog)

\* is_process_running(&filename): SYSTEM_INFO is locked, the table refreshed
\* (fail: the refresh panics) and searched, and the lock released.
Probe(t, fail) ==
    /\ host = "alive"
    /\ th[t].pc = "probe"
    /\ lock["SYSTEM_INFO"] = "free"
    /\ IF "SYSTEM_INFO" \in poisoned THEN Panics(t, "probe", {})
       ELSE IF fail THEN Panics(t, "probe", {"SYSTEM_INFO"})
       ELSE LET running == is_process_running(th[t].filename, procs)
            IN  /\ th' = [th EXCEPT ![t].pc = launch_process_branch(running),
                                    ![t].probed = TRUE,
                                    ![t].running = running]
                /\ UNCHANGED <<file, backup, persisted, edits, CONFIG, PENDING_LAUNCH_CONFIRMATION, lock, poisoned,
                               procs, hostName, host, setup, repair, registered, ICON_CACHE,
                               triggers, kill, spawnLog, killLog, exits, calls, caught, defer>>

\* A slot that keeps the command it already holds (first request wins).
pending_after_request_first_wins(pending, path) ==
    IF IsSome(pending) THEN pending ELSE Some(path)

\* *PENDING_LAUNCH_CONFIRMATION.lock().unwrap() = Some(path.to_string())
pending_after_request(pending, path) == Some(path)

Store(t) ==
    /\ host = "alive"
    /\ th[t].pc = "store"
    /\ lock["PENDING_LAUNCH_CONFIRMATION"] = "free"
    /\ IF "PENDING_LAUNCH_CONFIRMATION" \in poisoned THEN Panics(t, "store", {})
       ELSE /\ PENDING_LAUNCH_CONFIRMATION' =
                   pending_after_request(PENDING_LAUNCH_CONFIRMATION, th[t].path)
            /\ defer' = Append(defer, th[t].path)
            /\ th' = [th EXCEPT ![t] = Returned(t, [th[t] EXCEPT !.stored = TRUE])]
            /\ calls' = calls \cup {CallRecord(t, [th[t] EXCEPT !.stored = TRUE])}
            /\ lock' = ReleasedOnReturn(t)
            /\ UNCHANGED <<file, backup, persisted, edits, CONFIG, poisoned, procs, hostName, host, setup, repair,
                           registered, ICON_CACHE, triggers, kill, spawnLog, killLog,
                           exits, caught>>

\* The outcomes command.spawn() can have for the executable exe: the OS
\* starts the child, or refuses; only a file can be started.
SpawnOutcomes(exe) == IF is_file(exe) THEN {"ok", "err"} ELSE {"err"}

\* The entry spawnLog gets for force_launch_process(path) spawning on
\* thread t, called from `from` (launch_process or render_popup).
SpawnEntry(t, from, path, d) ==
    [path |-> path, exe |-> d.exe, args |-> d.args, by |-> t, from |-> from]

\* The process table after command.spawn() ended with `outcome`.
Spawned(table, d, outcome, pid) ==
    IF outcome = "ok"
    THEN table \cup {[pid |-> pid, name |-> Unwrap(file_name(d.exe))]}
    ELSE table

\* force_launch_process(path) called from launch_process: build_command,
\* then one spawn (fail: the spawn panics instead of returning).
Force(t, outcome, fail) ==
    /\ host = "alive"
    /\ th[t].pc = "force"
    /\ LET d == build_command(th[t].path)
       IN  IF d.tag = "panic" THEN outcome = "err" /\ ~fail /\ Panics(t, "decompose", {})
           ELSE IF d.tag = "none"
           THEN /\ outcome = "err" /\ ~fail
                /\ th' = [th EXCEPT ![t] = Returned(t, th[t])]
                /\ calls' = calls \cup {CallRecord(t, th[t])}
                /\ lock' = ReleasedOnReturn(t)
                /\ UNCHANGED <<file, backup, persisted, edits, CONFIG, PENDING_LAUNCH_CONFIRMATION, poisoned, procs,
                               hostName, host, setup, repair, registered, ICON_CACHE, triggers, kill,
                               spawnLog, killLog, exits, caught, defer>>
           ELSE IF fail THEN outcome = "err" /\ Panics(t, "spawn", {})
           ELSE /\ outcome \in SpawnOutcomes(d.exe)
                /\ spawnLog' = Append(spawnLog, SpawnEntry(t, "launch_process", th[t].path, d))
                /\ procs' = Spawned(procs, d, outcome, NewPid)
                /\ th' = [th EXCEPT ![t] = Returned(t, [th[t] EXCEPT !.spawns = @ + 1])]
                /\ calls' = calls \cup {CallRecord(t, [th[t] EXCEPT !.spawns = @ + 1])}
                /\ lock' = ReleasedOnReturn(t)
                /\ UNCHANGED <<file, backup, persisted, edits, CONFIG, PENDING_LAUNCH_CONFIRMATION, poisoned,
                               hostName, host, setup, repair, registered, ICON_CACHE, triggers, kill,
                               killLog, exits, caught, defer>>

(***************************************************************************)
(* The keybind callback.                                                   *)
(***************************************************************************)
\* str::strip_prefix("LAUNCH_")
strip_prefix(id_str) ==
    IF Len(id_str) >= Len(LAUNCH_PREFIX)
       /\ SubSeq(id_str, 1, Len(LAUNCH_PREFIX)) = LAUNCH_PREFIX
    THEN Some(SubSeq(id_str, Len(LAUNCH_PREFIX) + 1, Len(id_str)))
    ELSE None

\* A callback that does not look at is_release.
Dispatched_on_release_too(identifier, is_release) ==
    IF identifier.kind # "utf8" THEN None
    ELSE strip_prefix(identifier.text)

\* The name keybind_callback dispatches, or None when the call does nothing.
Dispatched(identifier, is_release) ==
    IF is_release \/ identifier.kind # "utf8" THEN None
    ELSE strip_prefix(identifier.text)

\* While the addon is loaded the host calls keybind_callback for the
\* keybinds it holds, on its own thread.
Loaded == th["main"].pc \notin {"load", "validate", "unloaded"}

\* keybind_callback(identifier, is_release): it returns at once when there
\* is nothing to dispatch, and otherwise runs up to launch_process_by_name's
\* CONFIG.lock(), which may have to wait.  event records the arguments.
KeybindCallback(identifier, is_release) ==
    /\ host = "alive"
    /\ Loaded
    /\ registered # {}
    /\ th["cb"].pc = "idle"
    /\ Events < MaxEvents
    /\ triggers' = triggers + 1
    /\ LET name == Dispatched(identifier, is_release)
       IN  /\ th' = [th EXCEPT !["cb"] =
                        IF ~IsSome(name)
                        THEN [th["cb"] EXCEPT
                                 !.event = [identifier |-> identifier,
                                            is_release |-> is_release]]
                        ELSE [Frame("lookup") EXCEPT
                                 !.name = Unwrap(name),
                                 !.event = [identifier |-> identifier,
                                            is_release |-> is_release]]]
    /\ UNCHANGED <<file, backup, persisted, edits, CONFIG, PENDING_LAUNCH_CONFIRMATION, lock,
                   poisoned, procs, hostName, host, setup, repair, registered, ICON_CACHE,
                   kill, spawnLog, killLog, exits, calls, caught, defer>>

\* A search that settles for the first program when none has the name.
find_program_or_first(config, name) ==
    LET hits == {i \in 1..Len(config.programs_to_launch) :
                    config.programs_to_launch[i].name = name}
    IN  IF config.programs_to_launch = <<>> THEN None
        ELSE IF hits = {} THEN Some(config.programs_to_launch[1])
        ELSE Some(config.programs_to_launch[CHOOSE i \in hits : \A j \in hits : i <= j])

\* config.programs_to_launch.iter().find(|p| p.name == name)
find_program(config, name) ==
    LET hits == {i \in 1..Len(config.programs_to_launch) :
                    config.programs_to_launch[i].name = name}
    IN  IF hits = {} THEN None
        ELSE Some(config.programs_to_launch[CHOOSE i \in hits : \A j \in hits : i <= j])

\* launch_process_by_name(name): lock CONFIG, find the program and enter
\* launch_process with the lock held; a name not found is logged.
Lookup ==
    /\ host = "alive"
    /\ th["cb"].pc = "lookup"
    /\ lock["CONFIG"] = "free"
    /\ IF "CONFIG" \in poisoned THEN Panics("cb", "lookup", {})
       ELSE LET program == find_program(CONFIG, th["cb"].name)
            IN  IF ~IsSome(program)
                THEN /\ th' = [th EXCEPT !["cb"].pc = "idle"]
                     /\ UNCHANGED <<file, backup, persisted, edits, CONFIG, PENDING_LAUNCH_CONFIRMATION, lock,
                                    poisoned, procs, hostName, host, setup, repair,
                                    registered, ICON_CACHE, triggers, kill, spawnLog, killLog, exits, calls, caught,
                                    defer>>
                ELSE LET pn == get_program_name_from_command(Unwrap(program).path)
                     IN  IF pn.tag = "panic" THEN Panics("cb", "decompose", {"CONFIG"})
                         ELSE /\ th' = [th EXCEPT !["cb"] =
                                           LaunchingFrom(th["cb"], Unwrap(program).path, pn)]
                              /\ lock' = [lock EXCEPT !["CONFIG"] = "cb"]
                              /\ UNCHANGED <<file, backup, persisted, edits, CONFIG, PENDING_LAUNCH_CONFIRMATION,
                                             poisoned, procs, hostName, host, setup, repair,
                                             registered, ICON_CACHE, triggers, kill, spawnLog, killLog, exits, calls,
                                             caught, defer>>

(***************************************************************************)
(* load.                                                                   *)
(***************************************************************************)
\* save_config_to_file: settings.ron after the write succeeded or failed
Saved(old, config, ok) == IF ok THEN [kind |-> "current", config |-> config] ELSE old

\* The legacy branch of load_config_from_file: the converted configuration
\* is installed and written to settings.ron (ok: the write succeeds).
LoadLegacy(legacy, ok) ==
    LET converted == ConfigFromLegacy(legacy)
    IN  IF converted.tag = "panic" THEN ok /\ Panics("main", "decompose", {})
        ELSE /\ CONFIG' = converted.config
             /\ file' = Saved(file, converted.config, ok)
             /\ th' = [th EXCEPT !["main"].pc = "validate"]
             /\ UNCHANGED <<backup, persisted, edits, PENDING_LAUNCH_CONFIRMATION, lock,
                            poisoned, procs, hostName, host, setup, repair, registered,
                            ICON_CACHE, triggers, kill, spawnLog, killLog, exits, calls,
                            caught, defer>>

\* The last branch: the file is copied to settings.ron.backup (ok: the copy
\* succeeds) and the default configuration is used.
LoadBackup(ok) ==
    /\ backup' = IF ok THEN Some(file) ELSE backup
    /\ CONFIG' = DefaultConfig
    /\ th' = [th EXCEPT !["main"].pc = "validate"]
    /\ UNCHANGED <<file, persisted, edits, PENDING_LAUNCH_CONFIRMATION, lock, poisoned,
                   procs, hostName, host, setup, repair, registered, ICON_CACHE, triggers,
                   kill, spawnLog, killLog, exits, calls, caught, defer>>

\* load_config_from_file: the file is read and parsed as Config, or else as
\* LegacyConfig; a file that cannot be read gives the default.
LoadConfig(ok) ==
    /\ host = "alive"
    /\ th["main"].pc = "load"
    /\ LET content == read_to_string(file)
       IN  IF IsSome(content) /\ ~IsSome(from_str_Config(Unwrap(content)))
           THEN IF IsSome(from_str_LegacyConfig(Unwrap(content)))
                THEN LoadLegacy(Unwrap(from_str_LegacyConfig(Unwrap(content))), ok)
                ELSE LoadBackup(ok)
           ELSE /\ ok
                /\ CONFIG' = IF IsSome(content) THEN Unwrap(from_str_Config(Unwrap(content)))
                             ELSE DefaultConfig
                /\ th' = [th EXCEPT !["main"].pc = "validate"]
                /\ UNCHANGED <<file, backup, persisted, edits, PENDING_LAUNCH_CONFIRMATION,
                               lock, poisoned, procs, hostName, host, setup, repair,
                               registered, ICON_CACHE, triggers, kill, spawnLog, killLog,
                               exits, calls, caught, defer>>

\* validate_and_cleanup_config, the save it asks for (ok: the write
\* succeeds), and load's clone of the configuration
Validate(ok) ==
    /\ host = "alive"
    /\ th["main"].pc = "validate"
    /\ LET v == validate_and_cleanup_config(CONFIG)
           config == [CONFIG EXCEPT !.programs_to_launch = v.kept]
       IN  IF v.panicked THEN ok /\ Panics("main", "decompose", {"CONFIG"})
           ELSE /\ (ok \/ v.needs_save)
                /\ CONFIG' = config
                /\ file' = IF v.needs_save THEN Saved(file, config, ok) ELSE file
                /\ UNCHANGED <<backup, persisted, edits>>
                /\ repair' = [removed |-> Len(CONFIG.programs_to_launch) - Len(v.kept),
                              needs_save |-> v.needs_save]
                /\ setup' = config.programs_to_launch
                /\ th' = [th EXCEPT !["main"].pc = "setup"]
                /\ UNCHANGED <<PENDING_LAUNCH_CONFIRMATION, lock, poisoned, procs, hostName,
                               host, registered, ICON_CACHE, triggers, kill, spawnLog, killLog, exits, calls, caught,
                               defer>>

\* One round of load's loop: register the program's keybind, cache its icon
\* and, for an OnAddonLoad program, enter launch_process; after the last
\* program the render callbacks are registered.
Setup ==
    /\ host = "alive"
    /\ th["main"].pc = "setup"
    /\ IF setup = <<>>
       THEN /\ th' = [th EXCEPT !["main"] = Frame("running")]
            /\ UNCHANGED <<file, backup, persisted, edits, CONFIG, PENDING_LAUNCH_CONFIRMATION, lock, poisoned, procs,
                           hostName, host, setup, repair, registered, ICON_CACHE, triggers, kill,
                           spawnLog, killLog, exits, calls, caught, defer>>
       ELSE LET program == Head(setup)
                pn == get_program_name_from_command(program.path)
            IN  IF program.trigger = "OnAddonLoad" /\ pn.tag = "panic"
                THEN Panics("main", "decompose", {})
                ELSE /\ registered' = registered \cup {LAUNCH_PREFIX \o program.name}
                     /\ ICON_CACHE' = ICON_CACHE \cup {program.name}
                     /\ setup' = Tail(setup)
                     /\ th' = [th EXCEPT !["main"] =
                                  IF program.trigger = "OnAddonLoad"
                                  THEN Launching(program.path, pn)
                                  ELSE Frame("setup")]
                     /\ UNCHANGED <<file, backup, persisted, edits, CONFIG, PENDING_LAUNCH_CONFIRMATION, lock,
                                    poisoned, procs, hostName, host, repair, triggers, kill,
                                    spawnLog, killLog, exits, calls, caught, defer>>

(***************************************************************************)
(* render_popup, once per frame.                                           *)
(***************************************************************************)
Clicks == {"none", "yes", "no", "close"}

\* render_popup locks PENDING_LAUNCH_CONFIRMATION and, when a command is
\* pending, shows the window; click is what the user does with it.
PopupEnter(click) ==
    /\ host = "alive"
    /\ th["main"].pc = "running"
    /\ lock["PENDING_LAUNCH_CONFIRMATION"] = "free"
    /\ IF "PENDING_LAUNCH_CONFIRMATION" \in poisoned
       THEN click = "none" /\ Panics("main", "popup", {})
       ELSE IF ~IsSome(PENDING_LAUNCH_CONFIRMATION)
       THEN click = "none" /\ UNCHANGED vars
       ELSE IF get_program_name_from_command(Unwrap(PENDING_LAUNCH_CONFIRMATION)).tag = "panic"
       THEN click = "none" /\ Panics("main", "decompose", {"PENDING_LAUNCH_CONFIRMATION"})
       ELSE /\ lock' = [lock EXCEPT !["PENDING_LAUNCH_CONFIRMATION"] = "main"]
            /\ th' = [th EXCEPT !["main"] =
                         [Frame("popup") EXCEPT !.path = Unwrap(PENDING_LAUNCH_CONFIRMATION),
                                                !.click = click]]
            /\ UNCHANGED <<file, backup, persisted, edits, CONFIG, PENDING_LAUNCH_CONFIRMATION, poisoned, procs,
                           hostName, host, setup, repair, registered, ICON_CACHE, triggers, kill,
                           spawnLog, killLog, exits, calls, caught, defer>>

\* A popup in which only the two buttons set close_popup.
close_popup_buttons_only(click) == click \in {"yes", "no"}

\* close_popup: "Yes", "No" and closing the window set it.
close_popup(click) == click # "none"

\* The rest of render_popup: "Yes" calls force_launch_process(&path), and
\* close_popup clears the pending command; the guard is dropped.
PopupExit(outcome) ==
    /\ host = "alive"
    /\ th["main"].pc = "popup"
    /\ LET path == th["main"].path
           click == th["main"].click
           d == build_command(path)
           spawns == click = "yes" /\ d.tag = "some"
       IN  /\ outcome \in (IF spawns THEN SpawnOutcomes(d.exe) ELSE {"err"})
           /\ spawnLog' = IF spawns THEN Append(spawnLog, SpawnEntry("main", "render_popup", path, d))
                          ELSE spawnLog
           /\ procs' = IF spawns THEN Spawned(procs, d, outcome, NewPid) ELSE procs
           /\ PENDING_LAUNCH_CONFIRMATION' =
                  IF close_popup(click) THEN None ELSE PENDING_LAUNCH_CONFIRMATION
           /\ defer' = IF close_popup(click) THEN <<>> ELSE defer
           /\ lock' = [lock EXCEPT !["PENDING_LAUNCH_CONFIRMATION"] = "free"]
           /\ th' = [th EXCEPT !["main"] = Frame("running")]
           /\ UNCHANGED <<file, backup, persisted, edits, CONFIG, poisoned, hostName, host, setup, repair, registered, ICON_CACHE,
                          triggers, kill, killLog, exits, calls, caught>>

(***************************************************************************)
(* render_programs_to_launch_section, once per frame with one interaction  *)
(* of the user; every change ends with save_config_to_file (ok: the write  *)
(* succeeds).                                                              *)
(***************************************************************************)
Names(programs) == {programs[i].name : i \in 1..Len(programs)}

RemoveAt(programs, i) ==
    SubSeq(programs, 1, i - 1) \o SubSeq(programs, i + 1, Len(programs))

\* programs with a field of the i-th one set to value
WithField(programs, i, field, value) ==
    [programs EXCEPT ![i] = [programs[i] EXCEPT ![field] = value]]

\* The position of the first program named name (iter().position).
position(programs, name) ==
    CHOOSE i \in 1..Len(programs) :
        /\ programs[i].name = name
        /\ \A j \in 1..(i - 1) : programs[j].name # name

\* The program "+" builds for path, whose file name is base_name.
NewProgram(programs, path, base_name, sanitized_base_name) ==
    [name |-> UniqueName(sanitized_base_name, sanitized_base_name, 2, Names(programs)),
     display_name |-> base_name, path |-> path, trigger |-> "OnAddonLoad",
     close_on_unload |-> FALSE, show_in_quick_access |-> TRUE]

\* The section's frame is entered: it locks CONFIG.
Editing ==
    /\ host = "alive"
    /\ th["main"].pc = "running"
    /\ lock["CONFIG"] = "free"
    /\ Events < MaxEvents

\* The configuration becomes config and is saved.
Edited(config, icons, ok) ==
    /\ CONFIG' = config
    /\ ICON_CACHE' = icons
    /\ file' = Saved(file, config, ok)
    /\ edits' = edits + 1
    /\ UNCHANGED <<backup, persisted, PENDING_LAUNCH_CONFIRMATION, lock, poisoned, procs,
                   hostName, host, th, setup, repair, registered, triggers, kill, spawnLog,
                   killLog, exits, calls, caught, defer>>

\* "+" with path in the input field
EditAdd(path, ok) ==
    /\ Editing
    /\ path # <<>>
    /\ IF "CONFIG" \in poisoned THEN ok /\ Panics("main", "options", {})
       ELSE LET pn == get_program_name_from_command(path)
            IN  IF pn.tag = "panic" THEN ok /\ Panics("main", "decompose", {"CONFIG"})
                ELSE IF pn.tag = "none" THEN ok /\ UNCHANGED vars
                ELSE Edited([CONFIG EXCEPT !.programs_to_launch =
                                Append(@, NewProgram(@, path, pn.name,
                                                     sanitize_identifier(pn.name)))],
                            ICON_CACHE \cup
                                {NewProgram(CONFIG.programs_to_launch, path, pn.name,
                                            sanitize_identifier(pn.name)).name},
                            ok)

\* "-" on the i-th program
EditRemove(i, ok) ==
    /\ Editing
    /\ i \in 1..Len(CONFIG.programs_to_launch)
    /\ IF "CONFIG" \in poisoned THEN ok /\ Panics("main", "options", {})
       ELSE Edited([CONFIG EXCEPT !.programs_to_launch =
                       RemoveAt(@, position(@, CONFIG.programs_to_launch[i].name))],
                   ICON_CACHE \ {CONFIG.programs_to_launch[i].name},
                   ok)

\* The i-th program's "Display Name" field is changed to text.
EditDisplayName(i, text, ok) ==
    /\ Editing
    /\ i \in 1..Len(CONFIG.programs_to_launch)
    /\ text # CONFIG.programs_to_launch[i].display_name
    /\ trim(text) # <<>>
    /\ IF "CONFIG" \in poisoned THEN ok /\ Panics("main", "options", {})
       ELSE Edited([CONFIG EXCEPT !.programs_to_launch =
                       WithField(@, position(@, CONFIG.programs_to_launch[i].name),
                                 "display_name", text)],
                   ICON_CACHE \cup {CONFIG.programs_to_launch[i].name},
                   ok)

\* One of the i-th program's checkboxes is clicked.
EditFlag(i, flag, ok) ==
    /\ Editing
    /\ i \in 1..Len(CONFIG.programs_to_launch)
    /\ IF "CONFIG" \in poisoned THEN ok /\ Panics("main", "options", {})
       ELSE Edited([CONFIG EXCEPT !.programs_to_launch =
                       WithField(@, IF flag = "close_on_unload" THEN i
                                    ELSE position(@, CONFIG.programs_to_launch[i].name),
                                 flag, ~CONFIG.programs_to_launch[i][flag])],
                   IF flag = "show_in_quick_access"
                      /\ ~CONFIG.programs_to_launch[i].show_in_quick_access
                   THEN ICON_CACHE \cup {CONFIG.programs_to_launch[i].name}
                   ELSE ICON_CACHE,
                   ok)

(***************************************************************************)
(* unload and cleanup_processes.                                           *)
(***************************************************************************)
\* unload's save_config_to_file (ok: the write succeeds)
UnloadSave(ok) ==
    /\ host = "alive"
    /\ th["main"].pc = "running"
    /\ lock["CONFIG"] = "free"
    /\ IF "CONFIG" \in poisoned THEN ok /\ Panics("main", "save", {})
       ELSE /\ file' = Saved(file, CONFIG, ok)
            /\ UNCHANGED <<backup, persisted, edits>>
            /\ th' = [th EXCEPT !["main"].pc = "plan"]
            /\ UNCHANGED <<CONFIG, PENDING_LAUNCH_CONFIRMATION, lock, poisoned, procs,
                           hostName, host, setup, repair, registered, ICON_CACHE, triggers,
                           kill, spawnLog, killLog, exits, calls, caught, defer>>

\* The kill list is computed under the CONFIG lock; cleanup_processes then
\* keeps the safe targets and, when any is left, snapshots the process table.
UnloadPlan ==
    /\ host = "alive"
    /\ th["main"].pc = "plan"
    /\ lock["CONFIG"] = "free"
    /\ IF "CONFIG" \in poisoned THEN Panics("main", "plan", {})
       ELSE LET kl == kill_list(CONFIG)
                targets == safe_targets(kl.list)
            IN  IF kl.tag = "panic" THEN Panics("main", "decompose", {"CONFIG"})
                ELSE /\ kill' = [list |-> kl.list, targets |-> targets, ti |-> 1,
                                 snapshot |-> IF targets = <<>> THEN {} ELSE procs,
                                 done |-> {}]
                     /\ th' = [th EXCEPT !["main"].pc =
                                  IF targets = <<>> THEN "unloaded" ELSE "kill"]
                     /\ UNCHANGED <<file, backup, persisted, edits, CONFIG, PENDING_LAUNCH_CONFIRMATION, lock,
                                    poisoned, procs, hostName, host, setup, repair,
                                    registered, ICON_CACHE, triggers, spawnLog, killLog, exits, calls,
                                    caught, defer>>

\* A loop that takes every process but the current one for a match.
Matches_all_others(snapshot, target) == {p \in snapshot : ~IsCurrentProcess(p)}

\* The processes of the snapshot the loop kills for `target`.
Matches(snapshot, target) == {p \in snapshot : eq_ignore_ascii_case(p.name, target)}

\* A loop that terminates nothing.
Kills_never(p) == FALSE

\* Whether the loop calls p.kill() on p: it does for every match.
Kills(p) == TRUE

\* One step of cleanup_processes' loops: p.kill() on a process of the
\* snapshot matching the current target (in the order the process map gives
\* them), or on to the next target; after the last one unload returns.
KillStep ==
    /\ host = "alive"
    /\ th["main"].pc = "kill"
    /\ LET target == kill.targets[kill.ti]
           todo == {p \in Matches(kill.snapshot, target) : p.pid \notin kill.done /\ Kills(p)}
       IN  IF todo # {}
           THEN \E p \in todo :
                  /\ killLog' = killLog \cup {[pid |-> p.pid, name |-> p.name,
                                                 target |-> target]}
                  /\ procs' = {q \in procs : q.pid # p.pid}
                  /\ host' = IF IsCurrentProcess(p) THEN "killed" ELSE host
                  /\ kill' = [kill EXCEPT !.done = @ \cup {p.pid}]
                  /\ UNCHANGED <<file, backup, persisted, edits, CONFIG, PENDING_LAUNCH_CONFIRMATION, lock, poisoned,
                                 hostName, th, setup, repair, registered, ICON_CACHE,
                                 triggers, spawnLog, exits, calls, caught, defer>>
           ELSE /\ IF kill.ti < Len(kill.targets)
                   THEN /\ kill' = [kill EXCEPT !.ti = @ + 1, !.done = {}]
                        /\ th' = th
                   ELSE /\ kill' = kill
                        /\ th' = [th EXCEPT !["main"].pc = "unloaded"]
                /\ UNCHANGED <<file, backup, persisted, edits, CONFIG, PENDING_LAUNCH_CONFIRMATION, lock, poisoned,
                               procs, hostName, host, setup, repair, registered, ICON_CACHE,
                               triggers, spawnLog, killLog, exits, calls, caught, defer>>

(***************************************************************************)
(* The environment: a process other than the host exits.                   *)
(***************************************************************************)
ProcessExit ==
    /\ host = "alive"
    /\ Events < MaxEvents
    /\ exits' = exits + 1
    /\ \E p \in procs :
          /\ ~IsCurrentProcess(p)
          /\ procs' = procs \ {p}
    /\ UNCHANGED <<file, backup, persisted, edits, CONFIG, PENDING_LAUNCH_CONFIRMATION, lock, poisoned, hostName,
                   host, th, setup, repair, registered, ICON_CACHE, triggers, kill,
                   spawnLog, killLog, calls, caught, defer>>

Next ==
    \/ \E ok \in BOOLEAN : LoadConfig(ok)
    \/ \E ok \in BOOLEAN : Validate(ok)
    \/ Setup
    \/ \E t \in Threads : \E fail \in (IF t = "cb" THEN BOOLEAN ELSE {FALSE}) : Probe(t, fail)
    \/ \E t \in Threads : Store(t)
    \/ \E t \in Threads : \E outcome \in {"ok", "err"} :
          \E fail \in (IF t = "cb" THEN BOOLEAN ELSE {FALSE}) : Force(t, outcome, fail)
    \/ \E id \in {RawId("utf8", r) : r \in registered} \cup ForeignIdentifiers :
          \E is_release \in BOOLEAN : KeybindCallback(id, is_release)
    \/ Lookup
    \/ \E click \in Clicks : PopupEnter(click)
    \/ \E outcome \in {"ok", "err"} : PopupExit(outcome)
    \/ \E path \in AddInputs : \E ok \in BOOLEAN : EditAdd(path, ok)
    \/ \E i \in 1..Len(CONFIG.programs_to_launch) : \E ok \in BOOLEAN : EditRemove(i, ok)
    \/ \E i \in 1..Len(CONFIG.programs_to_launch) : \E text \in DisplayNameInputs :
          \E ok \in BOOLEAN : EditDisplayName(i, text, ok)
    \/ \E i \in 1..Len(CONFIG.programs_to_launch) : \E flag \in Flags :
          \E ok \in BOOLEAN : EditFlag(i, flag, ok)
    \/ \E ok \in BOOLEAN : UnloadSave(ok)
    \/ UnloadPlan
    \/ KillStep
    \/ ProcessExit

Spec == Init /\ [][Next]_vars

(***************************************************************************)
(* Properties.                                                             *)
(***************************************************************************)
\* The names of a list, as a set.
Range(list) == {list[i] : i \in 1..Len(list)}

\* unload has computed its kill list; unload has returned.
Planned == th["main"].pc \in {"kill", "unloaded"}
TeardownDone == th["main"].pc = "unloaded"

IsHostName(n) == eq_ignore_ascii_case(n, HOST_EXE)
HostTargeted == \E n \in Range(kill.list) : IsHostName(n)
OtherTargeted == \E n \in Range(kill.list) : ~IsHostName(n)

C2_SelfExclusion == \A e \in killLog : ~IsCurrentProcess(e)

\* C3: a failure raised while keybind_callback handles a press is caught
\* at its boundary and never crashes the host.
C3_CallbackIsolation == host # "crashed_callback"

\* A panic of the process probe was caught (it poisoned SYSTEM_INFO), the
\* callback has returned and the host is alive.
C3_Witness ==
    /\ "probe" \in caught
    /\ "SYSTEM_INFO" \in poisoned
    /\ th["cb"].pc = "idle"
    /\ host = "alive"

\* Thread t is at a spawn: force_launch_process with a command it can
\* build, or the popup's "Yes".
AtSpawn(t) ==
    \/ th[t].pc = "force" /\ build_command(th[t].path).tag = "some"
    \/ th[t].pc = "popup" /\ th[t].click = "yes"
\* Thread t is in cleanup_processes' kill loop.
AtKill(t) == th[t].pc = "kill"

\* C4: no thread holds the CONFIG lock at the moment it spawns a process
\* or calls kill.
C4_LockDiscipline ==
    \A t \in Threads : (AtSpawn(t) \/ AtKill(t)) => lock["CONFIG"] # t

\* C5: the pending slot holds at most one command, and after requests for
\* running programs that no resolution followed it holds exactly the last
\* of them; earlier ones are discarded.
C5_LatestWins ==
    /\ Len(PENDING_LAUNCH_CONFIRMATION) <= 1
    /\ defer = <<>> => PENDING_LAUNCH_CONFIRMATION = None
    /\ defer # <<>> => PENDING_LAUNCH_CONFIRMATION = Some(defer[Len(defer)])

\* Two requests for different running programs, unresolved: the second
\* one is pending.
C5_Witness ==
    /\ Len(defer) = 2
    /\ defer[1] # defer[2]
    /\ PENDING_LAUNCH_CONFIRMATION = Some(defer[2])

\* Thread t's probe step: is_process_running returns to launch_process.
ProbeReturns(t) == th[t].pc = "probe" /\ th'[t].probed /\ ~th[t].probed

\* C6: for a command with an executable file name, launch_process finds a
\* process running exactly when the process table, at the time of the
\* check, holds one of that name (ignoring ASCII case); if so it stores the
\* command as pending and spawns nothing, and if not it spawns once and
\* does not write the pending slot.
C6_DuplicateLaunchProtocol ==
    /\ [][\A t \in Threads : ProbeReturns(t) =>
             (th'[t].running <=>
                 \E p \in procs : eq_ignore_ascii_case(p.name, th[t].filename))]_vars
    /\ [](\A c \in calls : c.named =>
             /\ c.probed
             /\ c.spawns = 1 <=> ~c.running
             /\ c.running => (c.stored /\ c.spawns = 0)
             /\ ~c.running => ~c.stored)

\* Both cases have happened: a call that found the program running and
\* stored it, and a call that found none and spawned.
C6_Witness ==
    /\ \E c \in calls : c.named /\ c.running /\ c.stored /\ c.spawns = 0
    /\ \E c \in calls : c.named /\ ~c.running /\ ~c.stored /\ c.spawns = 1

\* render_popup ends a frame in which the window was shown.
PopupResolves == th["main"].pc = "popup" /\ th'["main"].pc # "popup"

\* C7: when the popup is shown for a pending command, "Yes" makes one
\* spawn attempt, of exactly that command, "No" and closing the window
\* spawn nothing, and in these cases the slot is empty afterwards; a
\* frame without a click leaves the command pending and spawns nothing.
C7_ResolveConfirmation ==
    [][PopupResolves =>
         LET click == th["main"].click
             pending == PENDING_LAUNCH_CONFIRMATION
         IN  /\ IsSome(pending)
             /\ click = "yes" =>
                   /\ Len(spawnLog') = Len(spawnLog) + 1
                   /\ SubSeq(spawnLog', 1, Len(spawnLog)) = spawnLog
                   /\ spawnLog'[Len(spawnLog')].path = Unwrap(pending)
                   /\ PENDING_LAUNCH_CONFIRMATION' = None
             /\ click \in {"no", "close"} =>
                   /\ spawnLog' = spawnLog
                   /\ PENDING_LAUNCH_CONFIRMATION' = None
             /\ click = "none" =>
                   /\ spawnLog' = spawnLog
                   /\ PENDING_LAUNCH_CONFIRMATION' = pending]_vars

\* A pending command was accepted: the popup has spawned it and the slot
\* is empty.
C7_Witness ==
    /\ \E i \in 1..Len(spawnLog) : spawnLog[i].from = "render_popup"
    /\ PENDING_LAUNCH_CONFIRMATION = None
    /\ th["main"].pc = "running"

\* C8: a launch_process call for a command that cannot be decomposed still
\* makes a spawn attempt.
C8_UndecomposableStillSpawned ==
    \A c \in calls : Decompose(c.path).tag = "none" => c.spawns >= 1

\* The file names of the programs unload closes.
RECURSIVE CloseOnUnloadNames(_)
CloseOnUnloadNames(programs) ==
    IF programs = <<>> THEN {}
    ELSE LET pn == get_program_name_from_command(Head(programs).path)
         IN  (IF Head(programs).close_on_unload /\ pn.tag = "some" THEN {pn.name} ELSE {})
                 \cup CloseOnUnloadNames(Tail(programs))

\* C9: the kill list unload computes is the union of programs_to_kill with
\* the file names of the close_on_unload programs, and no two of its
\* entries are equal ignoring case.
C9_KillSetDeduplicated ==
    Planned =>
        /\ Range(kill.list) = Range(CONFIG.programs_to_kill)
                                 \cup CloseOnUnloadNames(CONFIG.programs_to_launch)
        /\ \A i, j \in 1..Len(kill.list) :
              i # j => ~eq_ignore_ascii_case(kill.list[i], kill.list[j])

\* C10: when validate_and_cleanup_config has run (load is setting the
\* programs up), no program is left whose executable does not exist, and
\* if one was removed the configuration was reported as changed.
C10_RemovalReported ==
    th["main"].pc = "setup" =>
        /\ \A i \in 1..Len(CONFIG.programs_to_launch) :
              LET d == Decompose(CONFIG.programs_to_launch[i].path)
              IN  d.tag = "some" => exists(d.exe)
        /\ repair.removed > 0 => repair.needs_save

\* load has run migration and validation.
Validated == th["main"].pc \notin {"load", "validate"}

\* C11: once validation has completed, and after every edit in the options
\* window (add, remove, display name, checkboxes), no two programs of the
\* configuration have the same name.
C11_IdentifiersUnique ==
    Validated =>
        \A i, j \in 1..Len(CONFIG.programs_to_launch) :
            i # j => CONFIG.programs_to_launch[i].name # CONFIG.programs_to_launch[j].name

\* "+" was clicked for C:\A.exe -x while a program named "A.exe" existed:
\* the new program is named "A.exe_2".
C11_Witness ==
    /\ Validated
    /\ edits = 1
    /\ \E i, j \in 1..Len(CONFIG.programs_to_launch) :
          /\ CONFIG.programs_to_launch[i].name = NameA
          /\ CONFIG.programs_to_launch[j].name = Suffixed(NameA, 2)

\* C12: once validation has completed every program has a non-empty name,
\* whatever settings.ron held.
C12_IdentifiersNonEmpty ==
    Validated =>
        \A i \in 1..Len(CONFIG.programs_to_launch) :
            CONFIG.programs_to_launch[i].name # <<>>

\* load_config_from_file and validate_and_cleanup_config have just run.
JustValidated == th["main"].pc = "setup" /\ setup = CONFIG.programs_to_launch

\* The names uniquification may give a program whose base name is base.
Uniquified(base, n) == {base} \cup {Suffixed(base, k) : k \in 2..n}

\* C13: when settings.ron was written in the legacy schema, load gives every
\* program the legacy name without its executable extension, sanitized (and
\* made unique): "A.exe" becomes "A".
C13_LegacyMigrated ==
    (JustValidated /\ persisted \in {PayloadLegacy, PayloadLegacyNamed}) =>
        /\ Len(CONFIG.programs_to_launch) = Len(persisted.config.programs_to_launch)
        /\ \A i \in 1..Len(CONFIG.programs_to_launch) :
              CONFIG.programs_to_launch[i].name
                  \in Uniquified(clean_name(persisted.config.programs_to_launch[i].name),
                                 Len(CONFIG.programs_to_launch))

\* settings.ron parses in neither schema.
Unparsable(payload) == payload.kind \in {"garbage", "binary"}

\* C14: load_config_from_file always returns with a configuration
\* installed; for a file that parses in neither schema the configuration is
\* empty, and settings.ron is not overwritten unless settings.ron.backup
\* holds a copy of it.
C14_LoadNeverFails ==
    /\ th["main"].pc \in {"load", "validate"} => host = "alive"
    /\ (th["main"].pc = "validate" /\ Unparsable(persisted)) => CONFIG = DefaultConfig
    /\ (Unparsable(persisted) /\ file # persisted) => backup = Some(persisted)


\* settings.ron held two or more programs, all of one name.
SharedBase(payload) ==
    /\ payload.kind \in {"current", "legacy_named"}
    /\ Len(payload.config.programs_to_launch) >= 2
    /\ \A i \in 1..Len(payload.config.programs_to_launch) :
          payload.config.programs_to_launch[i].name
              = payload.config.programs_to_launch[1].name

\* The name uniquification starts from: the stored name, which the legacy
\* conversion cleans first.
BaseOf(payload) ==
    IF payload.kind = "legacy_named"
    THEN clean_name(payload.config.programs_to_launch[1].name)
    ELSE payload.config.programs_to_launch[1].name

\* The i-th name uniquification gives to programs that share base.
NthName(base, i) == IF i = 1 THEN base ELSE Suffixed(base, i)

\* C15: N programs stored under one name come out of load, in order, as
\* base, base_2, ..., base_N; validating the result once more keeps every
\* name and does not ask for a save.
C15_Uniquification ==
    (JustValidated /\ SharedBase(persisted)) =>
        /\ Len(CONFIG.programs_to_launch) = Len(persisted.config.programs_to_launch)
        /\ \A i \in 1..Len(CONFIG.programs_to_launch) :
              CONFIG.programs_to_launch[i].name = NthName(BaseOf(persisted), i)
        /\ validate_and_cleanup_config(CONFIG).kept = CONFIG.programs_to_launch
        /\ ~validate_and_cleanup_config(CONFIG).needs_save
        /\ ~validate_and_cleanup_config(CONFIG).panicked

\* Three programs stored as "B" have been loaded as B, B_2 and B_3.
C15_Witness ==
    /\ JustValidated
    /\ persisted.kind = "current"
    /\ persisted.config.programs_to_launch = <<ProgB, ProgB, ProgB>>
    /\ Len(CONFIG.programs_to_launch) = Len(persisted.config.programs_to_launch)
    /\ CONFIG.programs_to_launch[Len(CONFIG.programs_to_launch)].name
           = Suffixed(ProgB.name, Len(CONFIG.programs_to_launch))

\* command is a bare executable path: it holds no .exe, .com or .bat, no
\* quote and no blank at either end.
PlainPath(command) ==
    /\ command # <<>>
    /\ trim(command) = command
    /\ ~IsSome(exe_end_index(to_lowercase(command)))
    /\ \A i \in 1..Len(command) : command[i] \notin {"\"", "'"}

\* C16: the command of every configured program that is a bare executable
\* path, spaces and backslashes included, decomposes into that very path and
\* no arguments.
C16_DecomposeRoundTrip ==
    \A i \in 1..Len(CONFIG.programs_to_launch) :
        PlainPath(CONFIG.programs_to_launch[i].path) =>
            Decompose(CONFIG.programs_to_launch[i].path)
                = DSome(CONFIG.programs_to_launch[i].path, <<>>)

\* The texts of the configuration: every program's name and display name,
\* and the empty text.
Texts ==
    {<<>>} \cup {CONFIG.programs_to_launch[i].name : i \in 1..Len(CONFIG.programs_to_launch)}
           \cup {CONFIG.programs_to_launch[i].display_name :
                     i \in 1..Len(CONFIG.programs_to_launch)}

\* C17: sanitize_identifier gives a text for every text, the empty one for
\* the empty one, and sanitizing its result gives that result again.
C17_SanitizeIdempotent ==
    /\ sanitize_identifier(<<>>) = <<>>
    /\ \A x \in Texts :
          /\ Len(sanitize_identifier(x)) = Len(x)
          /\ \A i \in 1..Len(x) : sanitize_identifier(x)[i] # " "
          /\ sanitize_identifier(sanitize_identifier(x)) = sanitize_identifier(x)

\* "+" was clicked for C:\A B.exe: the program displayed as "A B.exe" is
\* named "A_B.exe", the sanitized file name.
C17_Witness ==
    /\ edits = 1
    /\ \E i \in 1..Len(CONFIG.programs_to_launch) :
          /\ CONFIG.programs_to_launch[i].path = PathSpaced
          /\ \E k \in 1..Len(CONFIG.programs_to_launch[i].display_name) :
                CONFIG.programs_to_launch[i].display_name[k] = " "
          /\ CONFIG.programs_to_launch[i].name
                 = sanitize_identifier(CONFIG.programs_to_launch[i].display_name)
          /\ CONFIG.programs_to_launch[i].name # CONFIG.programs_to_launch[i].display_name

\* No program of the configuration is named name.
NoneNamed(name) ==
    \A i \in 1..Len(CONFIG.programs_to_launch) : CONFIG.programs_to_launch[i].name # name

\* launch_process_by_name takes CONFIG and searches it.
LookupReturns == th["cb"].pc = "lookup" /\ th'["cb"].pc # "lookup" /\ "CONFIG" \notin poisoned

\* C18: when launch_process_by_name is called with a name no program has,
\* it returns to the host without a spawn, with the configuration, the
\* pending confirmation, the process table and every lock as they were.
C18_NotFoundIsInert ==
    [][(LookupReturns /\ NoneNamed(th["cb"].name)) =>
          /\ th'["cb"].pc = "idle"
          /\ host' = host
          /\ spawnLog' = spawnLog
          /\ procs' = procs
          /\ calls' = calls
          /\ CONFIG' = CONFIG
          /\ PENDING_LAUNCH_CONFIRMATION' = PENDING_LAUNCH_CONFIRMATION
          /\ lock' = lock
          /\ poisoned' = poisoned]_vars

\* The keybind LAUNCH_Z was pressed while programs named otherwise were
\* configured, and the callback has returned.
C18_Witness ==
    /\ triggers = 1
    /\ th["cb"].pc = "idle"
    /\ th["cb"].event.identifier = RawId("utf8", LAUNCH_PREFIX \o th["cb"].name)
    /\ ~th["cb"].event.is_release
    /\ CONFIG.programs_to_launch # <<>>
    /\ NoneNamed(th["cb"].name)
    /\ spawnLog = <<>>
    /\ calls = {}

\* The host calls keybind_callback.
CallbackCalled == th["cb"].pc = "idle" /\ triggers' = triggers + 1

\* event is a press whose identifier is text that starts with "LAUNCH_".
Actionable(event) ==
    /\ ~event.is_release
    /\ event.identifier.kind = "utf8"
    /\ Len(event.identifier.text) >= Len(LAUNCH_PREFIX)
    /\ \A i \in 1..Len(LAUNCH_PREFIX) : event.identifier.text[i] = LAUNCH_PREFIX[i]

\* C19: a call of keybind_callback takes no lock, spawns nothing and leaves
\* the configuration and the pending confirmation as they were.  For a
\* press of an identifier that starts with "LAUNCH_" it goes on to
\* launch_process_by_name with what follows the prefix; for a release, or a
\* null, empty, non-UTF-8 or unprefixed identifier, it returns at once.
C19_OnlyPrefixedPressDispatches ==
    [][CallbackCalled =>
          /\ lock' = lock
          /\ poisoned' = poisoned
          /\ spawnLog' = spawnLog
          /\ procs' = procs
          /\ calls' = calls
          /\ host' = host
          /\ CONFIG' = CONFIG
          /\ PENDING_LAUNCH_CONFIRMATION' = PENDING_LAUNCH_CONFIRMATION
          /\ IF Actionable(th'["cb"].event)
             THEN /\ th'["cb"].pc = "lookup"
                  /\ LAUNCH_PREFIX \o th'["cb"].name = th'["cb"].event.identifier.text
             ELSE th'["cb"].pc = "idle"]_vars

\* The host has reported the release of a registered keybind, and the
\* callback has returned without a launch.
C19_Witness ==
    /\ triggers = 1
    /\ th["cb"].pc = "idle"
    /\ th["cb"].event.is_release
    /\ th["cb"].event.identifier.kind = "utf8"
    /\ th["cb"].event.identifier.text \in registered
    /\ spawnLog = <<>>
    /\ calls = {}

\* C20: the targets cleanup_processes works through are the kill list
\* without the entries equal to the host's name "Gw2-64.exe" in any ASCII
\* case, every other entry kept in its place; no process is terminated for
\* a target that is the host's name.
C20_HostPartition ==
    /\ Planned => kill.targets = SelectSeq(kill.list, LAMBDA n : ~IsHostName(n))
    /\ \A e \in killLog : e.target \in Range(kill.targets) /\ ~IsHostName(e.target)

\* cleanup_processes is in its loop: the kill list named the host in
\* another case than "Gw2-64.exe", that entry is not among the targets,
\* and a process has been terminated for one of the others.
C20_Witness ==
    /\ AtKill("main")
    /\ \E n \in Range(kill.list) : IsHostName(n) /\ n # HOST_EXE
    /\ Len(kill.targets) < Len(kill.list)
    /\ kill.targets # <<>>
    /\ killLog # {}

\* unload's save_config_to_file returns.
UnloadSaves == th["main"].pc = "running" /\ th'["main"].pc = "plan"

\* settings.ron holds the configuration as it is in memory.
FileCurrent == file = [kind |-> "current", config |-> CONFIG]

\* C21: unload calls save_config_to_file before cleanup_processes
\* terminates anything, and what the save writes is the configuration in
\* memory.  Whether or not the write succeeds the configuration in memory is
\* unchanged, the kill list is computed from it, and every process of the
\* snapshot that matches a safe target is terminated.
C21_SaveThenTerminate ==
    /\ [][UnloadSaves =>
             /\ killLog = {} /\ killLog' = {}
             /\ CONFIG' = CONFIG
             /\ file' # file => FileCurrent']_vars
    /\ [][killLog' # killLog => AtKill("main")]_vars
    /\ [](Planned => kill.list = kill_list(CONFIG).list)
    /\ [](TeardownDone =>
             \A n \in Range(kill.targets) : \A p \in kill.snapshot :
                 eq_ignore_ascii_case(p.name, n)
                     => [pid |-> p.pid, name |-> p.name, target |-> n] \in killLog)

\* The write of unload's save failed (settings.ron does not hold the
\* configuration in memory), and the teardown has terminated a process.
C21_Witness ==
    /\ TeardownDone
    /\ host = "alive"
    /\ ~FileCurrent
    /\ CONFIG # DefaultConfig
    /\ kill.list = kill_list(CONFIG).list
    /\ killLog # {}

\* The end of the rightmost .exe, .com or .bat of command_lower, whichever
\* of the three it is.
RightmostMarker(command_lower) ==
    LET ends == {Unwrap(r) + 4 : r \in {rfind(command_lower, EXT_EXE),
                                         rfind(command_lower, EXT_COM),
                                         rfind(command_lower, EXT_BAT)} \ {None}}
    IN  IF ends = {} THEN None ELSE Some(CHOOSE e \in ends : \A f \in ends : f <= e)

\* The decomposition that splits at the rightmost of all three markers.
SplitAtRightmost ==
    [c \in Commands |-> SplitAt(c, RightmostMarker(to_lowercase(c)), SplitWhole(c))]

\* C22: the command of every configured program is decomposed at the
\* rightmost of its .exe, .com and .bat markers (the greatest position over
\* the three) when the prefix up to there is an existing file, and by
\* shell-style tokenization of the whole command otherwise.
C22_SplitAtRightmostMarker ==
    \A i \in 1..Len(CONFIG.programs_to_launch) :
        /\ exe_end_index(to_lowercase(CONFIG.programs_to_launch[i].path))
               = RightmostMarker(to_lowercase(CONFIG.programs_to_launch[i].path))
        /\ Decompose(CONFIG.programs_to_launch[i].path)
               = SplitAtRightmost[CONFIG.programs_to_launch[i].path]

\* C23: once keybind_callback has caught a panic, whatever takes CONFIG or
\* SYSTEM_INFO afterwards (a frame of the options window, a save, another
\* keybind, unload) completes: no panic is raised on the host's own thread.
C23_LocksUsableAfterCaughtPanic ==
    caught # {} => host # "crashed_main"

\* The locks the next step of thread t may have to wait for: the callback
\* takes CONFIG, then SYSTEM_INFO, then PENDING_LAUNCH_CONFIRMATION; the
\* host's thread takes CONFIG in load, in a frame of the options window and
\* in unload, SYSTEM_INFO in load's launches and
\* PENDING_LAUNCH_CONFIRMATION in load's launches and in render_popup.
Wants(t) ==
    CASE th[t].pc \in {"lookup", "load", "validate", "plan"} -> {"CONFIG"}
      [] th[t].pc = "probe" -> {"SYSTEM_INFO"}
      [] th[t].pc = "store" -> {"PENDING_LAUNCH_CONFIRMATION"}
      [] th[t].pc = "running" -> {"CONFIG", "PENDING_LAUNCH_CONFIRMATION"}
      [] OTHER -> {}

\* Thread t cannot go on before thread u releases a lock.
WaitsOn(t, u) == \E l \in Wants(t) : lock[l] = u

\* The locks Nesting mentions, and an order of them that every nested
\* acquisition follows.
NestedLocks == {n[1] : n \in Nesting} \cup {n[2] : n \in Nesting}
NestingAcyclic ==
    \E rank \in [NestedLocks -> 1..Cardinality(NestedLocks)] :
        \A n \in Nesting : rank[n[1]] < rank[n[2]]

\* C24: no thread takes a lock it already holds, every lock taken while
\* another is held follows the one acyclic order of Nesting, a thread that
\* has returned to the host holds no lock, and the callback's thread and
\* the host's thread never wait for each other.
C24_DeadlockFreedom ==
    /\ NestingAcyclic
    /\ \A t \in Threads :
          /\ Wants(t) \cap Held(t) = {}
          /\ \A l \in Held(t) : \A w \in Wants(t) : <<l, w>> \in Nesting
    /\ th["cb"].pc = "idle" => Held("cb") = {}
    /\ th["main"].pc \in {"running", "unloaded"} => Held("main") = {}
    /\ ~(WaitsOn("cb", "main") /\ WaitsOn("main", "cb"))

\* The callback holds CONFIG and waits for PENDING_LAUNCH_CONFIRMATION,
\* which render_popup holds on the host's thread; render_popup needs no
\* further lock.
C24_Witness ==
    /\ th["cb"].pc = "store"
    /\ lock["CONFIG"] = "cb"
    /\ th["main"].pc = "popup"
    /\ lock["PENDING_LAUNCH_CONFIRMATION"] = "main"
    /\ WaitsOn("cb", "main")
    /\ ~WaitsOn("main", "cb")

\* The i-th spawn was made by launch_process and its process is running.
LaunchedAndRunning(i) ==
    /\ spawnLog[i].from = "launch_process"
    /\ \E p \in procs : p.pid = 3 + i

\* C25: as long as no process has exited or been terminated, once
\* launch_process has started a command and the process is running, no
\* other launch_process call for that command spawns it again: the second
\* request finds the process and becomes the pending confirmation.
C25_ConcurrentLaunchesConfirmed ==
    (exits = 0 /\ killLog = {}) =>
        \A i, j \in 1..Len(spawnLog) :
            (i < j /\ spawnLog[i].path = spawnLog[j].path /\ LaunchedAndRunning(i))
                => spawnLog[j].from # "launch_process"

\* What the configuration names for termination: programs_to_kill and the
\* file names of the close_on_unload programs.
ConfiguredTargets ==
    Range(CONFIG.programs_to_kill) \cup CloseOnUnloadNames(CONFIG.programs_to_launch)

MatchesAny(name, targets) == \E n \in targets : eq_ignore_ascii_case(name, n)

\* The i-th program is not closed on unload, and its file name is pn.
KeptOpen(i, pn) ==
    /\ ~CONFIG.programs_to_launch[i].close_on_unload
    /\ pn.tag = "some"

\* C26, as the specification states it: besides terminating only processes
\* named by the configuration, unload never terminates a process of a
\* program with close_on_unload false that is not in programs_to_kill.
C26_KeptOpenNeverTerminated ==
    \A e \in killLog :
        /\ MatchesAny(e.name, ConfiguredTargets)
        /\ \A i \in 1..Len(CONFIG.programs_to_launch) :
              LET pn == get_program_name_from_command(CONFIG.programs_to_launch[i].path)
              IN  (KeptOpen(i, pn) /\ eq_ignore_ascii_case(e.name, pn.name))
                      => MatchesAny(pn.name, Range(CONFIG.programs_to_kill))

\* C26, as the code has it: unload terminates a process only if its name
\* equals, ignoring case, an entry of programs_to_kill or the file name of
\* a program with close_on_unload true; a process of a program with
\* close_on_unload false is terminated only if its name is one of these
\* (another program closed on unload may run the same executable); with an
\* empty kill list nothing is terminated.
C26_OnlyConfiguredTargets ==
    /\ \A e \in killLog :
          /\ MatchesAny(e.name, ConfiguredTargets)
          /\ MatchesAny(e.name, Range(kill.list))
    /\ (Planned /\ kill.list = <<>>) => killLog = {}

\* A teardown has terminated a process, and a process of a program with
\* close_on_unload false, named by nothing in the configuration, was in the
\* snapshot and is still running.
C26_Witness ==
    /\ TeardownDone
    /\ killLog # {}
    /\ \E i \in 1..Len(CONFIG.programs_to_launch) :
          LET pn == get_program_name_from_command(CONFIG.programs_to_launch[i].path)
          IN  /\ KeptOpen(i, pn)
              /\ ~MatchesAny(pn.name, ConfiguredTargets)
              /\ \E q \in procs \cap kill.snapshot : eq_ignore_ascii_case(q.name, pn.name)

=============================================================================
